---------------------------- MODULE Spec2Model ----------------------------
(***************************************************************************)
(* FastCopy: the framed packet codec and the ConnectionPool of             *)
(* src/network.py, with the client session set-up of src/fcp.py.           *)
(*                                                                         *)
(* Bytes are the integers 0..255 and byte strings are sequences of them.   *)
(* A 32-bit word (a CRC32, the chksum field) is kept as its four           *)
(* big-endian bytes, because the model checker's integers are signed       *)
(* 32-bit; a 16-bit length is an integer.                                  *)
(***************************************************************************)
EXTENDS Integers, Sequences, FiniteSets, TLC

(***************************************************************************)
(* const.py is not among the sources: Flag and LEN_HEAD follow the         *)
(* specification (section 3 and section 6).                                *)
(***************************************************************************)
LEN_HEAD == 7

FlagNames ==
    << "PULL", "PUSH", "SID", "ATTACH", "FILE_COUNT", "DIR_INFO",
       "FILE_INFO", "FILE_READY", "FILE_CHUNK", "DONE", "RESEND" >>

\* The values of the Flag enumeration: the bytes 1..11.
Flag == 1..Len(FlagNames)

FlagOf(name) == CHOOSE v \in Flag : FlagNames[v] = name

FlagContains(b) == b \in Flag

(***************************************************************************)
(* binascii.crc32: the reflected CRC-32 (polynomial EDB88320), computed    *)
(* on a word held as two 16-bit halves <<hi, lo>>.                         *)
(***************************************************************************)
RECURSIVE Xor(_, _, _)
Xor(a, b, bits) ==
    IF bits = 0 THEN 0
    ELSE ((a + b) % 2) + 2 * Xor(a \div 2, b \div 2, bits - 1)

CrcShift(w) ==
    LET hi == w[1]
        lo == w[2]
        sh == << hi \div 2, (lo \div 2) + 32768 * (hi % 2) >>
    IN  IF lo % 2 = 1
        THEN << Xor(sh[1], 60856, 16), Xor(sh[2], 33568, 16) >>
        ELSE sh

RECURSIVE CrcBits(_, _)
CrcBits(w, n) == IF n = 0 THEN w ELSE CrcBits(CrcShift(w), n - 1)

\* The CRC of the word << 0, b >> after eight shifts, for every byte b.
CrcTable == [b \in 0..255 |-> CrcBits(<< 0, b >>, 8)]

\* One byte more: the table entry of the low byte, and the word moved
\* right by eight bits.
CrcByte(w, b) ==
    LET t == CrcTable[Xor(w[2] % 256, b, 8)]
    IN  << Xor(t[1], w[1] \div 256, 16),
           Xor(t[2], (w[2] \div 256) + 256 * (w[1] % 256), 16) >>

RECURSIVE CrcRange(_, _, _, _)
\* The bytes a..b, first half before second half; no half of a word is
\* negative.
CrcRange(w, bytes, a, b) ==
    IF w[1] < 0 \/ a > b THEN w
    ELSE IF a = b THEN CrcByte(w, bytes[a])
    ELSE CrcRange(CrcRange(w, bytes, a, (a + b) \div 2), bytes,
                  ((a + b) \div 2) + 1, b)

CrcBytes(w, bytes) == CrcRange(w, bytes, 1, Len(bytes))

\* crc32(body) as its four big-endian bytes.
crc32(bytes) ==
    LET w  == CrcBytes(<< 65535, 65535 >>, bytes)
        hi == 65535 - w[1]
        lo == 65535 - w[2]
    IN  << hi \div 256, hi % 256, lo \div 256, lo % 256 >>

(***************************************************************************)
(* Packet(flag, body)                                                      *)
(***************************************************************************)
Packet(flag, body) == [flag |-> flag, body |-> body]

length(pkt) == Len(pkt.body)

chksum(pkt) == crc32(pkt.body)

\* A head whose length field has its low byte first.
PackBIH_low_first(flag, sum, len) ==
    << flag >> \o sum \o << len % 256, len \div 256 >>

\* struct.pack('>BIH', flag, chksum, length): 1 + 4 + 2 bytes, big-endian.
PackBIH(flag, sum, len) == << flag >> \o sum \o << len \div 256, len % 256 >>

\* struct.unpack('>BIH', head)
UnpackBIH(head) ==
    << head[1], SubSeq(head, 2, 5), head[6] * 256 + head[7] >>

\* Packet.pack: the 7-byte head followed by the body.
pack(pkt) == PackBIH(pkt.flag, chksum(pkt), length(pkt)) \o pkt.body

\* Packet.unpack_head: Flag(flag) raises ValueError on a byte that is no Flag.
unpack_head_raises(head) == ~ FlagContains(head[1])

unpack_head(head) == UnpackBIH(head)

\* Packet.is_valid
is_valid(pkt, sum) == chksum(pkt) = sum

\* Packet.load(Flag.RESEND, flag, chksum, length)
load_RESEND(flag, sum, len) == Packet(FlagOf("RESEND"), PackBIH(flag, sum, len))


(***************************************************************************)
(* Bounds of the model and the inputs it draws.                            *)
(***************************************************************************)
\* Frames the peers put on the sockets, in all.
MaxArrivals == 2

\* Calls of send() by the application, in all.
MaxSends == 6

\* Sockets whose connection the peer closes or resets, in all.
MaxFaults == 1

\* The sockets the session set-up may hand to the pool.
Socks == {"s1", "s2"}

\* The arguments ConnectionPool(size) is constructed with.
SizeArgs == {-1, 0, 1, 129}

PULL == FlagOf("PULL")
PUSH == FlagOf("PUSH")
RESEND == FlagOf("RESEND")

\* Packets the peers send: a two-byte path and an empty path.
PktAB == Packet(PULL, << 97, 98 >>)
PktEmpty == Packet(PUSH, << >>)

ValidPackets == {PktAB, PktEmpty}

\* A frame whose body was changed on the way: the head is PktAB's.
FrameBadSum == PackBIH(PULL, crc32(<< 97, 98 >>), 2) \o << 97, 99 >>

\* A frame whose flag byte is no Flag value.
FrameBadFlag == PackBIH(12, crc32(<< 97 >>), 1) \o << 97 >>

ValidFrames == {pack(p) : p \in ValidPackets}

Frames == ValidFrames \cup {FrameBadSum, FrameBadFlag}

\* Packets the application sends.
AppPackets == {Packet(FlagOf("FILE_READY"), << 0, 1 >>)}

\* How many bytes of a frame of n bytes one socket.send call may accept.
SendAccepts(n) == {n, 3}

(***************************************************************************)
(* Buffer                                                                  *)
(***************************************************************************)
NoFlag == 0

ZeroSum == << 0, 0, 0, 0 >>

\* Buffer(): waiting = HEAD, remain = LEN_HEAD, flag = None, chksum = 0.
NewBuffer ==
    [waiting |-> "HEAD", remain |-> LEN_HEAD, flag |-> NoFlag,
     chksum |-> ZeroSum, data |-> << >>]

\* Buffer.reset
reset(buf) == NewBuffer

(***************************************************************************)
(* The state.                                                              *)
(***************************************************************************)
VARIABLES
    size,        \* ConnectionPool.size
    send_q,      \* ConnectionPool.send_q, head first
    recv_q,      \* ConnectionPool.recv_q, head first
    socks,       \* ConnectionPool.socks
    sender,      \* the sockets registered with the selector `sender`
    receiver,    \* selector `receiver`: registered socket -> its Buffer
    is_working,  \* ConnectionPool.is_working
    threads,     \* ConnectionPool.threads: [target, state] of each Thread
    sel_closed,  \* both selectors have been closed by stop()
    closed,      \* the sockets on which close() has been called
    stop_pc,     \* stop(): "idle", "join" (waiting in t.join()), "done"
    w_pc,        \* _send: "idle", "while", "for", "send", "exit", "raised"
    w_keys,      \* _send: the keys of sender.select() still to visit
    w_key,       \* _send: the socket of the current key
    w_packet,    \* _send: the packet taken from send_q
    r_pc,        \* _recv: "idle", "while", "for", "recv" (waiting in
                 \*   sock.recv), "exit", "raised"
    r_keys,      \* _recv: the keys of receiver.select() still to visit
    r_key,       \* _recv: the socket whose recv the reader waits in or has
                 \*   just been woken from, "none" otherwise
    inbuf,       \* per socket: bytes that arrived and were not read yet
    cut,         \* per socket: the bytes of a frame the peer has begun to
                 \*   send that have not arrived yet
    link,        \* per socket: "up", "fin", "rst", "pipe"
    wire,        \* per socket: the bytes socket.send accepted, in order
    arrived,     \* history, per socket: the frames the peer sent
    delivered,   \* history, per socket: the packets parse_body put in recv_q
    resends,     \* history, per socket: the RESEND packets parse_body queued
    tried,       \* history, per socket: the packets _send passed to send
    n_sends,     \* history: the calls of send() that returned
    add_ret,     \* the value the last add() returned, "none" before
    sent,        \* Cookie.sent: the cache of sent packets, key -> packet
    fatal,       \* the Sender found no packet for a RESEND: session failed
    n_conn,      \* Client.n_conn
    sid,         \* Client.sid: << "int", n >>, or << "str", bytes >>
    c_pc,        \* Client: "idle", "recv_head", "recv_body", "hs_done",
                 \*   "cpc_done", "raised", "exit1"
    c_exc,       \* Client: the exception that was raised, "none" before
    c_head,      \* recv_msg: the head it read, (flag, chksum, len_body)
    c_ret,       \* recv_msg: the packet it returned
    k_pkt,       \* codec: the packet given to pack
    k_out        \* codec: its frame and what decoding the frame gave

vars ==
    << size, send_q, recv_q, socks, sender, receiver, is_working, threads,
       sel_closed, closed, stop_pc, w_pc, w_keys, w_key, w_packet, r_pc,
       r_keys, r_key, inbuf, cut, link, wire, arrived, delivered, resends, tried,
       n_sends, add_ret, sent, fatal, n_conn, sid, c_pc, c_exc, c_head,
       c_ret, k_pkt, k_out >>

poolVars == << size, socks, sender, receiver, closed, add_ret >>
queueVars == << send_q, recv_q >>
lifeVars == << is_working, threads, sel_closed, stop_pc >>
writerVars == << w_pc, w_keys, w_key, w_packet >>
readerVars == << r_pc, r_keys, r_key >>
peerVars == << inbuf, link, arrived, cut, cut >>
histVars == << wire, delivered, resends, tried, n_sends >>
sessVars == << sent, fatal, n_conn, sid, c_pc, c_exc, c_head, c_ret,
               k_pkt, k_out >>

max_size == 128

NoPacket == Packet(NoFlag, << >>)

Min(a, b) == IF a < b THEN a ELSE b

\* ConnectionPool.__init__, but for size; and the sockets before any use.
InitPool ==
    /\ send_q = << >>
    /\ recv_q = << >>
    /\ socks = {}
    /\ sender = {}
    /\ receiver = [s \in {} |-> NewBuffer]
    /\ is_working = TRUE
    /\ threads = << >>
    /\ sel_closed = FALSE
    /\ closed = {}
    /\ stop_pc = "idle"
    /\ w_pc = "idle" /\ w_keys = {} /\ w_key = "none" /\ w_packet = NoPacket
    /\ r_pc = "idle" /\ r_keys = {} /\ r_key = "none"
    /\ cut = [s \in Socks |-> << >>]
    /\ inbuf = [s \in Socks |-> << >>]
    /\ link = [s \in Socks |-> "up"]
    /\ wire = [s \in Socks |-> << >>]
    /\ arrived = [s \in Socks |-> << >>]
    /\ delivered = [s \in Socks |-> << >>]
    /\ resends = [s \in Socks |-> << >>]
    /\ tried = [s \in Socks |-> << >>]
    /\ n_sends = 0
    /\ add_ret = "none"

\* Cookie.__init__: nothing was sent yet.
NoSent == [k \in {} |-> NoPacket]

\* Client.__init__, but for n_conn: sid = 0, no socket, no transporter.
InitClient ==
    /\ sid = << "int", 0 >>
    /\ c_pc = "idle"
    /\ c_exc = "none"
    /\ c_head = << NoFlag, ZeroSum, 0 >>
    /\ c_ret = NoPacket

\* No packet has been given to the codec.
InitCodec ==
    /\ k_pkt = NoPacket
    /\ k_out = [step |-> "none", frame |-> << >>,
                head |-> << NoFlag, ZeroSum, 0 >>, pkt |-> NoPacket,
                valid |-> FALSE]

\* The default of the option -n.
DefaultNum == 16

\* ConnectionPool.__init__(size)
Init ==
    /\ size \in {Min(a, max_size) : a \in SizeArgs}
    /\ InitPool
    /\ sent = NoSent
    /\ fatal = FALSE
    /\ n_conn = DefaultNum
    /\ InitClient
    /\ InitCodec

\* Queue(maxsize): a maxsize <= 0 makes the queue unbounded.
maxsize == size * 5

full(q) == maxsize > 0 /\ Len(q) >= maxsize

(***************************************************************************)
(* The public queue methods and the admission of sockets.                  *)
(***************************************************************************)
\* send(packet): send_q.put(packet), which blocks while the queue is full.
send(packet) ==
    /\ n_sends < MaxSends
    /\ ~ full(send_q)
    /\ send_q' = Append(send_q, packet)
    /\ n_sends' = n_sends + 1
    /\ UNCHANGED << sessVars, recv_q, poolVars, lifeVars, writerVars, readerVars,
                    peerVars, wire, delivered, resends, tried >>

\* recv(): recv_q.get(), which blocks while the queue is empty.
recv ==
    /\ recv_q # << >>
    /\ recv_q' = Tail(recv_q)
    /\ UNCHANGED << sessVars, send_q, poolVars, lifeVars, writerVars, readerVars,
                    peerVars, histVars >>

\* The sockets the session set-up has handed to the pool so far.
handed == socks \cup closed

\* add(sock), of a socket the pool does not hold. The session set-up hands
\* its sockets over one after the other: s1, then s2.
add(sock) ==
    /\ sock \notin handed
    /\ sock = "s2" => "s1" \in handed
    /\ IF Cardinality(socks) < size
       THEN /\ sender' = sender \cup {sock}
            /\ receiver' = [s \in DOMAIN receiver \cup {sock} |->
                               IF s = sock THEN NewBuffer ELSE receiver[s]]
            /\ socks' = socks \cup {sock}
            /\ add_ret' = "true"
       ELSE /\ add_ret' = "false"
            /\ UNCHANGED << sender, receiver, socks >>
    /\ UNCHANGED << sessVars, size, closed, queueVars, lifeVars, writerVars,
                    readerVars, peerVars, histVars >>

\* remove without self.sender.unregister(sock): the socket stays registered
\* for writing.
removed_keeps_sender(sock) ==
    /\ sender' = sender
    /\ receiver' = [s \in DOMAIN receiver \ {sock} |-> receiver[s]]
    /\ socks' = socks \ {sock}
    /\ closed' = closed \cup {sock}

\* What remove(sock) does to the pool: unregister twice, drop, close.
removed(sock) ==
    /\ sender' = sender \ {sock}
    /\ receiver' = [s \in DOMAIN receiver \ {sock} |-> receiver[s]]
    /\ socks' = socks \ {sock}
    /\ closed' = closed \cup {sock}

\* remove(sock), called on a socket of the pool.
remove(sock) ==
    /\ sock \in socks
    /\ removed(sock)
    /\ UNCHANGED << sessVars, size, add_ret, queueVars, lifeVars, writerVars,
                    readerVars, peerVars, histVars >>


(***************************************************************************)
(* _send: the writer loop.                                                 *)
(***************************************************************************)
\* After a key of the for loop: the next key, or back to the while test.
AfterKey(keys) == IF keys = {} THEN "while" ELSE "for"

\* A call of _send(), by the thread meant to run it.
Call_send ==
    /\ w_pc = "idle"
    /\ w_pc' = "while"
    /\ UNCHANGED << sessVars, w_keys, w_key, w_packet, poolVars, queueVars, lifeVars,
                    readerVars, peerVars, histVars >>

\* while self.is_working is false: the loop ends.
W_Exit ==
    /\ w_pc = "while"
    /\ ~ is_working
    /\ w_pc' = "exit"
    /\ UNCHANGED << sessVars, w_keys, w_key, w_packet, poolVars, queueVars, lifeVars,
                    readerVars, peerVars, histVars >>

\* self.sender.select(): waits, without a timeout, until some registered
\* socket is writable, and returns the writable ones.
W_Select ==
    /\ w_pc = "while"
    /\ is_working
    /\ \E ready \in SUBSET sender :
          /\ ready # {}
          /\ w_keys' = ready
    /\ w_pc' = "for"
    /\ UNCHANGED << sessVars, w_key, w_packet, poolVars, queueVars, lifeVars,
                    readerVars, peerVars, histVars >>

\* send_q.get(timeout=0.1) raises Empty: continue with the next key.
W_GetEmpty ==
    /\ w_pc = "for"
    /\ send_q = << >>
    /\ \E s \in w_keys :
          /\ w_keys' = w_keys \ {s}
          /\ w_pc' = AfterKey(w_keys \ {s})
    /\ UNCHANGED << sessVars, w_key, w_packet, poolVars, queueVars, lifeVars,
                    readerVars, peerVars, histVars >>

\* packet = send_q.get(timeout=0.1)
W_Get ==
    /\ w_pc = "for"
    /\ send_q # << >>
    /\ \E s \in w_keys :
          /\ w_keys' = w_keys \ {s}
          /\ w_key' = s
    /\ w_packet' = Head(send_q)
    /\ send_q' = Tail(send_q)
    /\ w_pc' = "send"
    /\ UNCHANGED << sessVars, recv_q, poolVars, lifeVars, readerVars, peerVars,
                    histVars >>

\* key.fileobj.send(msg) returns: the socket accepted k bytes of msg. The
\* value send returns is not looked at.
W_Send ==
    /\ w_pc = "send"
    /\ w_key \notin closed
    /\ link[w_key] \in {"up", "fin"}
    /\ LET msg == pack(w_packet)
       IN  \E k \in SendAccepts(Len(msg)) :
              /\ k \in 1..Len(msg)
              /\ wire' = [wire EXCEPT ![w_key] = @ \o SubSeq(msg, 1, k)]
    /\ tried' = [tried EXCEPT ![w_key] = Append(@, w_packet)]
    /\ w_packet' = NoPacket
    /\ w_pc' = AfterKey(w_keys)
    /\ UNCHANGED << sessVars, w_keys, w_key, poolVars, queueVars, lifeVars,
                    readerVars, peerVars, delivered, resends, n_sends >>

\* The insertion `self.send_q.queue.insert(0, packet)`.
insert0(q, packet) == << packet >> \o q

\* send raises ConnectionResetError: remove the socket, put the packet back
\* at the head of the queue's deque.
W_SendReset ==
    /\ w_pc = "send"
    /\ w_key \notin closed
    /\ link[w_key] = "rst"
    /\ removed(w_key)
    /\ send_q' = insert0(send_q, w_packet)
    /\ w_packet' = NoPacket
    /\ w_pc' = AfterKey(w_keys)
    /\ UNCHANGED << sessVars, w_keys, w_key, recv_q, size, add_ret, lifeVars,
                    readerVars, peerVars, histVars >>

\* send raises an exception that is no ConnectionResetError: BrokenPipeError
\* on a connection the peer has closed, OSError on a socket already closed
\* by remove(). Nothing catches it: _send ends.
W_SendRaises ==
    /\ w_pc = "send"
    /\ w_key \in closed \/ link[w_key] = "pipe"
    /\ w_pc' = "raised"
    /\ UNCHANGED << sessVars, w_keys, w_key, w_packet, poolVars, queueVars, lifeVars,
                    readerVars, peerVars, histVars >>

(***************************************************************************)
(* _recv: the reader loop.                                                 *)
(***************************************************************************)
\* A call of _recv(), by the thread meant to run it.
Call_recv ==
    /\ r_pc = "idle"
    /\ r_pc' = "while"
    /\ r_key' = "none"
    /\ UNCHANGED << sessVars, r_keys, poolVars, queueVars, lifeVars, writerVars,
                    peerVars, histVars >>

R_Exit ==
    /\ r_pc = "while"
    /\ ~ is_working
    /\ r_pc' = "exit"
    /\ r_key' = "none"
    /\ UNCHANGED << sessVars, r_keys, poolVars, queueVars, lifeVars, writerVars,
                    peerVars, histVars >>

\* The keys the for loop may visit next: the socket whose recv has just
\* returned after a wait, any key of the list otherwise.
r_next == IF r_key \in r_keys THEN {r_key} ELSE r_keys

\* A registered socket is readable when bytes wait in it or its connection
\* has ended.
readable(s) == inbuf[s] # << >> \/ link[s] # "up"

\* self.receiver.select(timeout=1) returns the readable sockets; an empty
\* list (the timeout) only repeats the while test.
R_Select ==
    /\ r_pc = "while"
    /\ is_working
    /\ LET ready == {s \in DOMAIN receiver : readable(s)}
       IN  /\ ready # {}
           /\ r_keys' = ready
    /\ r_pc' = "for"
    /\ r_key' = "none"
    /\ UNCHANGED << sessVars, poolVars, queueVars, lifeVars, writerVars, peerVars,
                    histVars >>

\* parse_head without data.clear(): the head stays in the Buffer.
parse_head_keeps_data(buf) ==
    LET h == unpack_head(buf.data)
    IN  [waiting |-> "BODY", remain |-> h[3], flag |-> h[1],
         chksum |-> h[2], data |-> buf.data]

\* parse_head: the Buffer after a head that unpack_head accepts.
parse_head(buf) ==
    LET h == unpack_head(buf.data)
    IN  [waiting |-> "BODY", remain |-> h[3], flag |-> h[1],
         chksum |-> h[2], data |-> << >>]

\* The packet parse_body builds from the Buffer.
body_packet(buf) == Packet(buf.flag, buf.data)

\* parse_body with the RESEND naming the checksum of the bytes received
\* instead of the checksum of the head.
parse_body_own_sum(s, buf) ==
    LET pkt == body_packet(buf)
    IN  IF is_valid(pkt, buf.chksum)
        THEN /\ ~ full(recv_q)
             /\ recv_q' = Append(recv_q, pkt)
             /\ delivered' = [delivered EXCEPT ![s] = Append(@, pkt)]
             /\ UNCHANGED << send_q, resends >>
        ELSE LET resend_pkt == load_RESEND(buf.flag, chksum(pkt), length(pkt))
             IN  /\ ~ full(send_q)
                 /\ send_q' = Append(send_q, resend_pkt)
                 /\ resends' = [resends EXCEPT ![s] = Append(@, resend_pkt)]
                 /\ UNCHANGED << recv_q, delivered >>

\* parse_body on the Buffer of socket s: put the packet in recv_q, or a
\* RESEND in send_q; either put blocks while its queue is full.
parse_body(s, buf) ==
    LET pkt == body_packet(buf)
    IN  IF is_valid(pkt, buf.chksum)
        THEN /\ ~ full(recv_q)
             /\ recv_q' = Append(recv_q, pkt)
             /\ delivered' = [delivered EXCEPT ![s] = Append(@, pkt)]
             /\ UNCHANGED << send_q, resends >>
        ELSE LET resend_pkt == load_RESEND(buf.flag, buf.chksum, length(pkt))
             IN  /\ ~ full(send_q)
                 /\ send_q' = Append(send_q, resend_pkt)
                 /\ resends' = [resends EXCEPT ![s] = Append(@, resend_pkt)]
                 /\ UNCHANGED << recv_q, delivered >>

\* The Buffer after `data` was read: remain and data updated.
extend(buf, data) ==
    [buf EXCEPT !.remain = @ - Len(data), !.data = @ \o data]

\* sock.recv(buf.remain, MSG_WAITALL) returns k >= 1 bytes, and the Buffer
\* stays short of its phase's end.
R_RecvPart ==
    /\ r_pc = "for"
    /\ \E s \in r_next \ closed :
          /\ link[s] # "rst"
          /\ \E k \in 1..Min(receiver[s].remain - 1, Len(inbuf[s])) :
                /\ receiver' = [receiver EXCEPT
                                  ![s] = extend(@, SubSeq(inbuf[s], 1, k))]
                /\ inbuf' = [inbuf EXCEPT
                                ![s] = SubSeq(@, k + 1, Len(@))]
          /\ r_keys' = r_keys \ {s}
          /\ r_pc' = AfterKey(r_keys \ {s})
    /\ r_key' = "none"
    /\ UNCHANGED << sessVars, size, socks, sender, closed, add_ret, queueVars,
                    lifeVars, writerVars, link, arrived, cut, histVars >>

\* recv returns the last bytes of a head that unpack_head accepts.
R_RecvHead ==
    /\ r_pc = "for"
    /\ \E s \in r_next \ closed :
          /\ link[s] # "rst"
          /\ receiver[s].waiting = "HEAD"
          /\ LET k   == receiver[s].remain
                 buf == extend(receiver[s], SubSeq(inbuf[s], 1, k))
             IN  /\ k \in 1..Len(inbuf[s])
                 /\ ~ unpack_head_raises(buf.data)
                 /\ receiver' = [receiver EXCEPT ![s] = parse_head(buf)]
                 /\ inbuf' = [inbuf EXCEPT ![s] = SubSeq(@, k + 1, Len(@))]
          /\ r_keys' = r_keys \ {s}
          /\ r_pc' = AfterKey(r_keys \ {s})
    /\ r_key' = "none"
    /\ UNCHANGED << sessVars, size, socks, sender, closed, add_ret, queueVars,
                    lifeVars, writerVars, link, arrived, cut, histVars >>

\* recv returns the last bytes of a head whose flag byte is no Flag:
\* unpack_head raises ValueError, which nothing catches: _recv ends.
R_RecvHeadRaises ==
    /\ r_pc = "for"
    /\ \E s \in r_next \ closed :
          /\ link[s] # "rst"
          /\ receiver[s].waiting = "HEAD"
          /\ LET k   == receiver[s].remain
                 buf == extend(receiver[s], SubSeq(inbuf[s], 1, k))
             IN  /\ k \in 1..Len(inbuf[s])
                 /\ unpack_head_raises(buf.data)
                 /\ receiver' = [receiver EXCEPT ![s] = buf]
                 /\ inbuf' = [inbuf EXCEPT ![s] = SubSeq(@, k + 1, Len(@))]
    /\ r_pc' = "raised"
    /\ r_key' = "none"
    /\ UNCHANGED << sessVars, r_keys, size, socks, sender, closed, add_ret, queueVars,
                    lifeVars, writerVars, link, arrived, cut, histVars >>

\* recv returns the last bytes of a body: parse_body, then buf.reset().
R_RecvBody ==
    /\ r_pc = "for"
    /\ \E s \in r_next \ closed :
          /\ link[s] # "rst"
          /\ receiver[s].waiting = "BODY"
          /\ LET k   == receiver[s].remain
                 buf == extend(receiver[s], SubSeq(inbuf[s], 1, k))
             IN  /\ k \in 1..Len(inbuf[s])
                 /\ parse_body(s, buf)
                 /\ receiver' = [receiver EXCEPT ![s] = reset(buf)]
                 /\ inbuf' = [inbuf EXCEPT ![s] = SubSeq(@, k + 1, Len(@))]
          /\ r_keys' = r_keys \ {s}
          /\ r_pc' = AfterKey(r_keys \ {s})
    /\ r_key' = "none"
    /\ UNCHANGED << sessVars, size, socks, sender, closed, add_ret, lifeVars,
                    writerVars, link, arrived, cut, wire, tried, n_sends >>

\* recv returns no byte: the peer has closed and nothing is left to read, or
\* buf.remain is 0 and recv(0) returns b'' at once. The socket is removed.
R_RecvNone ==
    /\ r_pc = "for"
    /\ \E s \in r_next \ closed :
          /\ link[s] # "rst"
          /\ \/ receiver[s].remain = 0
             \/ inbuf[s] = << >> /\ link[s] \in {"fin", "pipe"}
          /\ removed(s)
          /\ r_keys' = r_keys \ {s}
          /\ r_pc' = AfterKey(r_keys \ {s})
    /\ r_key' = "none"
    /\ UNCHANGED << sessVars, size, add_ret, queueVars, lifeVars, writerVars,
                    peerVars, histVars >>

\* recv raises ConnectionResetError: remove the socket and break.
R_RecvReset ==
    /\ r_pc = "for"
    /\ \E s \in r_next \ closed :
          /\ link[s] = "rst"
          /\ removed(s)
    /\ r_keys' = {}
    /\ r_pc' = "while"
    /\ r_key' = "none"
    /\ UNCHANGED << sessVars, size, add_ret, queueVars, lifeVars, writerVars,
                    peerVars, histVars >>

\* recv on a socket that remove() has closed since the select raises
\* OSError, which nothing catches: _recv ends.
R_RecvRaises ==
    /\ r_pc = "for"
    /\ r_next \cap closed # {}
    /\ r_pc' = "raised"
    /\ r_key' = "none"
    /\ UNCHANGED << sessVars, r_keys, poolVars, queueVars, lifeVars, writerVars,
                    peerVars, histVars >>


(***************************************************************************)
(* start() and stop(), and the threads start() creates.                    *)
(***************************************************************************)
Thread(target) == [target |-> target, state |-> "running"]

\* start(): Thread(target=self.send) and Thread(target=self.recv), started
\* and appended to self.threads.
start ==
    /\ threads = << >>
    /\ stop_pc = "idle"
    /\ threads' = << Thread("send"), Thread("recv") >>
    /\ UNCHANGED << sessVars, is_working, sel_closed, stop_pc, poolVars, queueVars,
                    writerVars, readerVars, peerVars, histVars >>

\* The thread whose target is send: send() is called without its packet
\* argument, which raises TypeError, and the thread ends.
T_send ==
    /\ \E i \in DOMAIN threads :
          /\ threads[i].target = "send"
          /\ threads[i].state = "running"
          /\ threads' = [threads EXCEPT ![i].state = "raised"]
    /\ UNCHANGED << sessVars, is_working, sel_closed, stop_pc, poolVars, queueVars,
                    writerVars, readerVars, peerVars, histVars >>

\* The thread whose target is recv: recv() is recv_q.get(True, None), which
\* waits for a packet, takes it and returns; the thread ends.
T_recv ==
    /\ \E i \in DOMAIN threads :
          /\ threads[i].target = "recv"
          /\ threads[i].state = "running"
          /\ threads' = [threads EXCEPT ![i].state = "returned"]
    /\ recv_q # << >>
    /\ recv_q' = Tail(recv_q)
    /\ UNCHANGED << sessVars, send_q, is_working, sel_closed, stop_pc, poolVars,
                    writerVars, readerVars, peerVars, histVars >>

\* stop(), up to the joins: is_working = False.
stop ==
    /\ stop_pc = "idle"
    /\ is_working' = FALSE
    /\ stop_pc' = "join"
    /\ UNCHANGED << sessVars, threads, sel_closed, poolVars, queueVars, writerVars,
                    readerVars, peerVars, histVars >>

\* stop(), after every t.join() has returned: close both selectors and
\* every socket of socks.
stop_close ==
    /\ stop_pc = "join"
    /\ \A i \in DOMAIN threads : threads[i].state # "running"
    /\ sel_closed' = TRUE
    /\ closed' = closed \cup socks
    /\ stop_pc' = "done"
    /\ UNCHANGED << sessVars, is_working, threads, size, socks, sender, receiver,
                    add_ret, queueVars, writerVars, readerVars, peerVars,
                    histVars >>

(***************************************************************************)
(* The peers of the sockets.                                               *)
(***************************************************************************)
Arrivals == Len(arrived["s1"]) + Len(arrived["s2"])

Faults == Cardinality({s \in Socks : link[s] # "up"})

\* The peer of socket s sends frame f.
Arrive(s, f) ==
    /\ Arrivals < MaxArrivals
    /\ link[s] = "up"
    /\ s \in socks
    /\ s \notin closed
    /\ cut[s] = << >>
    /\ inbuf' = [inbuf EXCEPT ![s] = @ \o f]
    /\ arrived' = [arrived EXCEPT ![s] = Append(@, f)]
    /\ UNCHANGED << sessVars, link, cut, poolVars, queueVars, lifeVars, writerVars,
                    readerVars, histVars >>

\* The peer closes its end: reads find the end of the stream.
PeerClose(s) ==
    /\ Faults < MaxFaults
    /\ link[s] = "up"
    /\ link' = [link EXCEPT ![s] = "fin"]
    /\ UNCHANGED << sessVars, inbuf, arrived, cut, poolVars, queueVars, lifeVars,
                    writerVars, readerVars, histVars >>

\* The closed peer no longer takes bytes: send raises BrokenPipeError.
PeerGone(s) ==
    /\ link[s] = "fin"
    /\ link' = [link EXCEPT ![s] = "pipe"]
    /\ UNCHANGED << sessVars, inbuf, arrived, cut, poolVars, queueVars, lifeVars,
                    writerVars, readerVars, histVars >>

\* The connection is reset: recv and send raise ConnectionResetError.
PeerReset(s) ==
    /\ Faults < MaxFaults
    /\ link[s] = "up"
    /\ link' = [link EXCEPT ![s] = "rst"]
    /\ UNCHANGED << sessVars, inbuf, arrived, cut, poolVars, queueVars, lifeVars,
                    writerVars, readerVars, histVars >>

(***************************************************************************)
(* The pool: every operation, thread and peer.                             *)
(***************************************************************************)
Next ==
    \/ \E p \in AppPackets : send(p)
    \/ recv
    \/ \E s \in Socks : add(s)
    \/ \E s \in Socks : remove(s)
    \/ Call_send \/ W_Exit \/ W_Select \/ W_GetEmpty \/ W_Get
    \/ W_Send \/ W_SendReset \/ W_SendRaises
    \/ Call_recv \/ R_Exit \/ R_Select
    \/ R_RecvPart \/ R_RecvHead \/ R_RecvHeadRaises \/ R_RecvBody
    \/ R_RecvNone \/ R_RecvReset \/ R_RecvRaises
    \/ start \/ T_send \/ T_recv \/ stop \/ stop_close
    \/ \E s \in Socks, f \in Frames : Arrive(s, f)
    \/ \E s \in Socks : PeerClose(s)
    \/ \E s \in Socks : PeerGone(s)
    \/ \E s \in Socks : PeerReset(s)

Spec == Init /\ [][Next]_vars


(***************************************************************************)
(* The parts of the pool, each with the operations that act on it.         *)
(***************************************************************************)
\* The reader loop, the sockets it reads and their peers.
NextReader ==
    \/ \E s \in Socks : add(s)
    \/ Call_recv \/ R_Select
    \/ R_RecvPart \/ R_RecvHead \/ R_RecvHeadRaises \/ R_RecvBody
    \/ R_RecvNone \/ R_RecvReset
    \/ \E s \in Socks, f \in Frames : Arrive(s, f)
    \/ \E s \in Socks : PeerClose(s)
    \/ \E s \in Socks : PeerReset(s)

SpecReader == Init /\ [][NextReader]_vars

\* The writer loop, the queue it empties and the sockets it writes.
NextWriter ==
    \/ \E p \in AppPackets : send(p)
    \/ \E s \in Socks : add(s)
    \/ Call_send \/ W_Exit \/ W_Select \/ W_GetEmpty \/ W_Get
    \/ W_Send \/ W_SendReset \/ W_SendRaises
    \/ stop
    \/ \E s \in Socks : PeerClose(s)
    \/ \E s \in Socks : PeerGone(s)
    \/ \E s \in Socks : PeerReset(s)

SpecWriter == Init /\ [][NextWriter]_vars


\* The admission of sockets and the application's side of send_q.
NextPool ==
    \/ \E p \in AppPackets : send(p)
    \/ \E s \in Socks : add(s)
    \/ \E s \in Socks : remove(s)
    \/ stop \/ stop_close

SpecPool == Init /\ [][NextPool]_vars

\* start() and stop() around the reader loop and the application's recv().
NextLife ==
    \/ start \/ T_send \/ T_recv \/ stop \/ stop_close
    \/ recv
    \/ \E s \in Socks : add(s)
    \/ Call_recv \/ R_Exit \/ R_Select
    \/ R_RecvPart \/ R_RecvHead \/ R_RecvHeadRaises \/ R_RecvBody
    \/ R_RecvNone \/ R_RecvRaises
    \/ \E s \in Socks, f \in Frames : Arrive(s, f)
    \/ \E s \in Socks : PeerClose(s)

\* Every thread that can take a step is scheduled in the end, and stop()
\* goes on once its joins have returned.
Fairness ==
    /\ WF_vars(T_send)
    /\ WF_vars(T_recv)
    /\ WF_vars(stop_close)
    /\ WF_vars(R_Exit)

SpecLife == Init /\ [][NextLife]_vars /\ Fairness


(***************************************************************************)
(* The sending side of a transfer: both loops of the pool, the peer that   *)
(* asks for a frame again, and the Sender's handling of RESEND.            *)
(* transport.py is not among the sources: the handling follows the         *)
(* specification (section 4.4 and section 9).                              *)
(***************************************************************************)
\* Calls of send() by the Sender while both loops run.
MaxPushes == 1

\* The body of the RESEND that names packet p: (flag, chksum, length).
resend_key(p) == PackBIH(p.flag, chksum(p), length(p))

\* The peer found the checksum of a frame written on s wrong and asks for
\* the packet again.
PeerResend(s) ==
    \E i \in DOMAIN tried[s] :
        Arrive(s, pack(load_RESEND(tried[s][i].flag, chksum(tried[s][i]),
                                   length(tried[s][i]))))

\* The Sender takes a RESEND from recv_q and looks the packet up in the
\* cache of sent packets: found, it is sent again; a miss is fatal.
handle_RESEND ==
    /\ recv_q # << >>
    /\ Head(recv_q).flag = RESEND
    /\ ~ fatal
    /\ recv_q' = Tail(recv_q)
    /\ IF Head(recv_q).body \in DOMAIN sent
       THEN /\ ~ full(send_q)
            /\ send_q' = Append(send_q, sent[Head(recv_q).body])
            /\ fatal' = fatal
       ELSE /\ fatal' = TRUE
            /\ send_q' = send_q
    /\ UNCHANGED << sent, n_conn, sid, c_pc, c_exc, c_head, c_ret, k_pkt,
                    k_out, poolVars, lifeVars, writerVars, readerVars,
                    peerVars, histVars >>

NextBoth ==
    \/ \E p \in AppPackets : n_sends < MaxPushes /\ send(p)
    \/ \E s \in Socks : add(s)
    \/ Call_send \/ W_Select \/ W_GetEmpty \/ W_Get
    \/ W_Send \/ W_SendReset \/ W_SendRaises
    \/ Call_recv \/ R_Select
    \/ R_RecvPart \/ R_RecvHead \/ R_RecvBody
    \/ R_RecvReset \/ R_RecvRaises
    \/ \E s \in Socks : Arrive(s, pack(PktAB))
    \/ \E s \in Socks : PeerResend(s)
    \/ \E s \in Socks : PeerReset(s)
    \/ handle_RESEND

SpecBoth == Init /\ [][NextBoth]_vars

(***************************************************************************)
(* NetworkMixin and the Client of fcp.py. The primary socket is s1.        *)
(***************************************************************************)
\* Packet.load(flag, path) for PULL and PUSH: the bytes of the path.
load_path(flag, path) == Packet(flag, path)

\* Packet.load(flag, n) for SID, ATTACH, FILE_COUNT, FILE_READY:
\* struct.pack('>H', n).
load_H(flag, n) == Packet(flag, << n \div 256, n % 256 >>)

\* struct.pack('>H', v) raises struct.error unless v is an int of 16 bits.
pack_H_raises(v) == ~ (v[1] = "int" /\ v[2] \in 0..65535)

\* The number of values Packet.unpack_body returns for a flag, and the
\* least length of body its format takes.
body_values(flag) ==
    IF flag \in {FlagOf("DIR_INFO"), FlagOf("FILE_CHUNK"), RESEND} THEN 3
    ELSE IF flag = FlagOf("FILE_INFO") THEN 6
    ELSE 1

\* struct.unpack raises struct.error on a body whose length the format of
\* the flag does not take.
unpack_body_raises(pkt) ==
    LET n == Len(pkt.body)
        f == pkt.flag
    IN  IF f \in {PULL, PUSH} THEN FALSE
        ELSE IF f \in {FlagOf("SID"), FlagOf("ATTACH"),
                       FlagOf("FILE_COUNT"), FlagOf("FILE_READY")}
             THEN n # 2
        ELSE IF f = FlagOf("DONE") THEN n # 4
        ELSE IF f = RESEND THEN n # LEN_HEAD
        ELSE IF f = FlagOf("DIR_INFO") THEN n < 4
        ELSE IF f = FlagOf("FILE_INFO") THEN n < 36
        ELSE n < 6

\* The first value of Packet.unpack_body, for the flags that give one
\* value: a str, a 16-bit int, or the 32-bit int of DONE as its bytes.
unpack_body_first(pkt) ==
    IF pkt.flag \in {PULL, PUSH} THEN << "str", pkt.body >>
    ELSE IF pkt.flag = FlagOf("DONE") THEN << "int32", pkt.body >>
    ELSE << "int", pkt.body[1] * 256 + pkt.body[2] >>

\* The -n arguments of the client.
NumArgs == {1, 2}

\* The path the client asks for.
RemotePath == << 97 >>

\* The replies of the server on the primary socket: SID(5); ATTACH(5);
\* SID(5) with a changed body; a head with no Flag; SID(5) cut inside the
\* head and inside the body; a RESEND of the request.
SidFrame == pack(load_H(FlagOf("SID"), 5))
AttachFrame == pack(load_H(FlagOf("ATTACH"), 5))
SidBadSum == SubSeq(SidFrame, 1, LEN_HEAD) \o << 0, 6 >>
SidCutHead == SubSeq(SidFrame, 1, 5)
SidCutBody == SubSeq(SidFrame, 1, 8)
ResendReply == pack(load_RESEND(PULL, crc32(RemotePath), Len(RemotePath)))

Replies ==
    {SidFrame, AttachFrame, SidBadSum, FrameBadFlag, SidCutHead, SidCutBody,
     ResendReply}

\* The client of a pool of n_conn sockets, before run.
InitSession ==
    /\ n_conn \in NumArgs
    /\ size = Min(n_conn, max_size)
    /\ InitPool
    /\ sent = NoSent
    /\ fatal = FALSE
    /\ InitClient
    /\ InitCodec

clientVars == << sid, c_pc, c_exc, c_head, c_ret >>
otherVars ==
    << sent, fatal, n_conn, k_pkt, k_out, poolVars, queueVars, lifeVars,
       writerVars, readerVars >>

\* The exception leaves the method.
raise(exc) == c_pc' = "raised" /\ c_exc' = exc

\* run, up to the call of init_conn: the tunnel is open and the Client made.
run ==
    /\ c_pc = "idle"
    /\ c_pc' = "init_conn"
    /\ UNCHANGED << sid, c_exc, c_head, c_ret, otherVars, peerVars,
                    histVars >>

\* init_conn: self.handshake(self.srcs) gives handshake(tunnel, remote_path)
\* one argument of two, which raises TypeError before anything is sent.
init_conn ==
    /\ c_pc = "init_conn"
    /\ raise("TypeError")
    /\ UNCHANGED << sid, c_head, c_ret, otherVars, peerVars, histVars >>

\* run: except Exception, sys.exit(1).
run_except ==
    /\ c_pc = "raised"
    /\ c_pc' = "exit1"
    /\ UNCHANGED << sid, c_exc, c_head, c_ret, otherVars, peerVars,
                    histVars >>

\* send_msg(flag, *args) on the primary socket: load, pack, sock.send.
send_msg(pkt) == wire' = [wire EXCEPT !["s1"] = @ \o pack(pkt)]

\* handshake(tunnel, remote_path), called with both arguments, up to the
\* call of recv_msg: connect, send_msg(self.action, remote_path).
handshake(action) ==
    /\ c_pc = "idle"
    /\ link["s1"] = "up"
    /\ send_msg(load_path(action, RemotePath))
    /\ c_pc' = "recv_head"
    /\ UNCHANGED << sid, c_exc, c_head, c_ret, otherVars, peerVars,
                    delivered, resends, tried, n_sends >>

\* The server writes a reply on the primary socket.
Reply(f) ==
    /\ Arrivals < MaxArrivals
    /\ wire["s1"] # << >>
    /\ link["s1"] = "up"
    /\ inbuf' = [inbuf EXCEPT !["s1"] = @ \o f]
    /\ arrived' = [arrived EXCEPT !["s1"] = Append(@, f)]
    /\ UNCHANGED << link, cut, clientVars, otherVars, histVars >>

\* sock.recv(n, MSG_WAITALL) on the primary socket returns once n bytes
\* are there, or with fewer when the peer has closed.
recv_returns(n) == Len(inbuf["s1"]) >= n \/ link["s1"] = "fin"

recv_data(n) == SubSeq(inbuf["s1"], 1, Min(n, Len(inbuf["s1"])))

recv_rest(n) ==
    SubSeq(inbuf["s1"], Min(n, Len(inbuf["s1"])) + 1, Len(inbuf["s1"]))

\* recv_msg: the head is read and unpacked.
RM_Head ==
    /\ c_pc = "recv_head"
    /\ link["s1"] # "rst"
    /\ recv_returns(LEN_HEAD)
    /\ Len(recv_data(LEN_HEAD)) = LEN_HEAD
    /\ ~ unpack_head_raises(recv_data(LEN_HEAD))
    /\ c_head' = unpack_head(recv_data(LEN_HEAD))
    /\ inbuf' = [inbuf EXCEPT !["s1"] = recv_rest(LEN_HEAD)]
    /\ c_pc' = "recv_body"
    /\ UNCHANGED << sid, c_exc, c_ret, link, arrived, cut, otherVars, histVars >>

\* recv_msg: the read of the head raises ConnectionResetError, or unpack
\* raises struct.error on fewer than 7 bytes, or Flag(flag) raises
\* ValueError.
RM_HeadRaises ==
    /\ c_pc = "recv_head"
    /\ \/ /\ link["s1"] = "rst"
          /\ raise("ConnectionResetError")
          /\ inbuf' = inbuf
       \/ /\ link["s1"] # "rst"
          /\ recv_returns(LEN_HEAD)
          /\ Len(recv_data(LEN_HEAD)) < LEN_HEAD
          /\ raise("struct.error")
          /\ inbuf' = [inbuf EXCEPT !["s1"] = recv_rest(LEN_HEAD)]
       \/ /\ link["s1"] # "rst"
          /\ recv_returns(LEN_HEAD)
          /\ Len(recv_data(LEN_HEAD)) = LEN_HEAD
          /\ unpack_head_raises(recv_data(LEN_HEAD))
          /\ raise("ValueError")
          /\ inbuf' = [inbuf EXCEPT !["s1"] = recv_rest(LEN_HEAD)]
    /\ UNCHANGED << sid, c_head, c_ret, link, arrived, cut, otherVars, histVars >>

\* recv_msg: the body is read, its CRC32 is the checksum of the head, and
\* Packet(flag, body) is returned.
RM_Body ==
    /\ c_pc = "recv_body"
    /\ link["s1"] # "rst"
    /\ recv_returns(c_head[3])
    /\ crc32(recv_data(c_head[3])) = c_head[2]
    /\ c_ret' = Packet(c_head[1], recv_data(c_head[3]))
    /\ inbuf' = [inbuf EXCEPT !["s1"] = recv_rest(c_head[3])]
    /\ c_pc' = "returned"
    /\ UNCHANGED << sid, c_exc, c_head, link, arrived, cut, otherVars,
                    histVars >>

\* recv_msg: the CRC32 of the body is not the checksum of the head, and
\* send_msg(Flag.RESEND, head) raises struct.error, because Packet.load
\* gives struct.pack('>BIH') one argument of three; or the read of the body
\* raises ConnectionResetError.
RM_BodyRaises ==
    /\ c_pc = "recv_body"
    /\ \/ /\ link["s1"] = "rst"
          /\ raise("ConnectionResetError")
          /\ inbuf' = inbuf
       \/ /\ link["s1"] # "rst"
          /\ recv_returns(c_head[3])
          /\ crc32(recv_data(c_head[3])) # c_head[2]
          /\ raise("struct.error")
          /\ inbuf' = [inbuf EXCEPT !["s1"] = recv_rest(c_head[3])]
    /\ UNCHANGED << sid, c_head, c_ret, link, arrived, cut, otherVars, histVars >>

\* The primary socket was made with timeout=30: a read that finds too few
\* bytes for that long raises socket.timeout.
RM_Timeout ==
    /\ \/ c_pc = "recv_head" /\ ~ recv_returns(LEN_HEAD)
       \/ c_pc = "recv_body" /\ ~ recv_returns(c_head[3])
    /\ link["s1"] = "up"
    /\ raise("timeout")
    /\ UNCHANGED << sid, c_head, c_ret, peerVars, otherVars, histVars >>

\* handshake, after recv_msg: self.sid, = packet.unpack_body().
H_Sid ==
    /\ c_pc = "returned"
    /\ ~ unpack_body_raises(c_ret)
    /\ body_values(c_ret.flag) = 1
    /\ sid' = unpack_body_first(c_ret)
    /\ c_pc' = "hs_done"
    /\ UNCHANGED << c_exc, c_head, c_ret, otherVars, peerVars, histVars >>

\* handshake, after recv_msg: unpack_body raises struct.error, or the
\* unpacking of its values into one name raises ValueError.
H_SidRaises ==
    /\ c_pc = "returned"
    /\ \/ unpack_body_raises(c_ret) /\ raise("struct.error")
       \/ /\ ~ unpack_body_raises(c_ret)
          /\ body_values(c_ret.flag) # 1
          /\ raise("ValueError")
    /\ UNCHANGED << sid, c_head, c_ret, otherVars, peerVars, histVars >>

\* create_parallel_connections with n_conn <= 1: the ATTACH packet is
\* loaded and packed, and the loop has no turn.
create_parallel_connections ==
    /\ c_pc \in {"idle", "hs_done"}
    /\ ~ pack_H_raises(sid)
    /\ n_conn - 1 <= 0
    /\ c_pc' = "cpc_done"
    /\ UNCHANGED << sid, c_exc, c_head, c_ret, otherVars, peerVars,
                    histVars >>

\* create_parallel_connections with n_conn >= 2: the first turn of the
\* loop reads self.addr, which no code assigns, and raises AttributeError;
\* no socket is opened.
create_parallel_connections_raises ==
    /\ c_pc \in {"idle", "hs_done"}
    /\ \/ pack_H_raises(sid) /\ raise("struct.error")
       \/ /\ ~ pack_H_raises(sid)
          /\ n_conn - 1 >= 1
          /\ raise("AttributeError")
    /\ UNCHANGED << sid, c_head, c_ret, otherVars, peerVars, histVars >>

NextSession ==
    \/ run \/ init_conn \/ run_except
    \/ \E a \in {PULL, PUSH} : handshake(a)
    \/ \E f \in Replies : Reply(f)
    \/ RM_Head \/ RM_HeadRaises \/ RM_Body \/ RM_BodyRaises \/ RM_Timeout
    \/ H_Sid \/ H_SidRaises
    \/ create_parallel_connections \/ create_parallel_connections_raises
    \/ PeerClose("s1") \/ PeerReset("s1")

\* The client goes on while it can, and an exception reaches run's except.
FairSession ==
    /\ WF_vars(init_conn)
    /\ WF_vars(run_except)

SpecSession == InitSession /\ [][NextSession]_vars /\ FairSession

(***************************************************************************)
(* The codec by itself: a packet is packed, and its frame is decoded the   *)
(* way recv_msg and the reader do it: unpack_head of the first 7 bytes,    *)
(* the next length bytes as the body, is_valid.                            *)
(***************************************************************************)
\* The largest length the H field of the head holds.
MaxLength == 65535

\* A body of n bytes.
BodyOf(n) == [i \in 1..n |-> (i * 7) % 256]

\* The packets given to the codec: every flag with bodies of 0, 1, 2, 256
\* and 300 bytes, and one body of the largest length.
CodecPackets ==
    {Packet(f, b) : f \in Flag,
                    b \in {<< >>, << 0 >>, << 255 >>, << 1, 2 >>,
                           BodyOf(256), BodyOf(300)}}
        \cup {Packet(FlagOf("FILE_CHUNK"), BodyOf(MaxLength))}

NoOut ==
    [step |-> "none", frame |-> << >>, head |-> << NoFlag, ZeroSum, 0 >>,
     pkt |-> NoPacket, valid |-> FALSE]

InitPacked ==
    /\ k_pkt \in CodecPackets
    /\ k_out = NoOut
    /\ size = Min(DefaultNum, max_size)
    /\ InitPool
    /\ sent = NoSent
    /\ fatal = FALSE
    /\ n_conn = DefaultNum
    /\ InitClient

\* packet.pack()
Pack ==
    /\ k_out.step = "none"
    /\ k_out' = [k_out EXCEPT !.step = "packed", !.frame = pack(k_pkt)]
    /\ UNCHANGED << k_pkt, sent, fatal, n_conn, clientVars, poolVars,
                    queueVars, lifeVars, writerVars, readerVars, peerVars,
                    histVars >>

\* The bytes frame[a:b] of Python: what there is of them.
slice(frame, a, b) == SubSeq(frame, a + 1, Min(b, Len(frame)))

\* Packet.unpack_head(frame[:7]), Packet(flag, frame[7:7 + length]),
\* is_valid(chksum).
Unpack ==
    /\ k_out.step = "packed"
    /\ ~ unpack_head_raises(slice(k_out.frame, 0, LEN_HEAD))
    /\ LET h == unpack_head(slice(k_out.frame, 0, LEN_HEAD))
           p == Packet(h[1], slice(k_out.frame, LEN_HEAD, LEN_HEAD + h[3]))
       IN  k_out' = [k_out EXCEPT !.step = "unpacked", !.head = h,
                                  !.pkt = p, !.valid = is_valid(p, h[2])]
    /\ UNCHANGED << k_pkt, sent, fatal, n_conn, clientVars, poolVars,
                    queueVars, lifeVars, writerVars, readerVars, peerVars,
                    histVars >>

NextCodec == Pack \/ Unpack

SpecCodec == InitPacked /\ [][NextCodec]_vars

(***************************************************************************)
(* Frames that arrive in pieces, and sockets whose recv waits.             *)
(***************************************************************************)
\* The sockets in blocking mode. The auxiliary sockets are made without a
\* timeout, so recv(n, MSG_WAITALL) on them returns only when n bytes are
\* there or the connection has ended; the primary socket s1 is made with a
\* timeout and returns the bytes that have arrived.
blocking == Socks \ {"s1"}

\* Where the peer's frame is cut: inside the head, between head and body,
\* inside the body.
Cuts == {3, LEN_HEAD, LEN_HEAD + 1}

\* The first k bytes of frame f arrive on socket s; the rest is still to
\* come.
ArrivePart(s, f, k) ==
    /\ Arrivals < MaxArrivals
    /\ link[s] = "up"
    /\ s \in socks
    /\ s \notin closed
    /\ cut[s] = << >>
    /\ k \in 1..(Len(f) - 1)
    /\ inbuf' = [inbuf EXCEPT ![s] = @ \o SubSeq(f, 1, k)]
    /\ cut' = [cut EXCEPT ![s] = SubSeq(f, k + 1, Len(f))]
    /\ arrived' = [arrived EXCEPT ![s] = Append(@, f)]
    /\ UNCHANGED << sessVars, link, poolVars, queueVars, lifeVars, writerVars,
                    readerVars, histVars >>

\* The rest of the frame arrives.
ArriveRest(s) ==
    /\ link[s] = "up"
    /\ cut[s] # << >>
    /\ inbuf' = [inbuf EXCEPT ![s] = @ \o cut[s]]
    /\ cut' = [cut EXCEPT ![s] = << >>]
    /\ UNCHANGED << sessVars, link, arrived, poolVars, queueVars, lifeVars,
                    writerVars, readerVars, histVars >>

\* sock.recv(buf.remain, MSG_WAITALL) on a socket in blocking mode that
\* holds fewer bytes than buf.remain: the reader waits inside recv.
R_RecvWait ==
    /\ r_pc = "for"
    /\ \E s \in (r_next \ closed) \cap blocking :
          /\ link[s] = "up"
          /\ Len(inbuf[s]) < receiver[s].remain
          /\ r_key' = s
    /\ r_pc' = "recv"
    /\ UNCHANGED << sessVars, r_keys, poolVars, queueVars, lifeVars,
                    writerVars, peerVars, histVars >>

\* The recv the reader waits in returns: buf.remain bytes are there, or the
\* connection has ended, or the socket was closed.
R_RecvWake ==
    /\ r_pc = "recv"
    /\ IF r_key \in closed THEN TRUE
       ELSE \/ link[r_key] # "up"
            \/ Len(inbuf[r_key]) >= receiver[r_key].remain
    /\ r_pc' = "for"
    /\ UNCHANGED << sessVars, r_keys, r_key, poolVars, queueVars, lifeVars,
                    writerVars, peerVars, histVars >>

\* One step of the reader loop.
ReaderStep ==
    \/ R_Exit \/ R_Select
    \/ R_RecvPart \/ R_RecvHead \/ R_RecvHeadRaises \/ R_RecvBody
    \/ R_RecvNone \/ R_RecvReset \/ R_RecvRaises
    \/ R_RecvWait \/ R_RecvWake

\* The reader loop over sockets on which frames arrive whole or in pieces.
NextServe ==
    \/ \E s \in Socks : add(s)
    \/ Call_recv \/ R_Select
    \/ R_RecvPart \/ R_RecvHead \/ R_RecvHeadRaises \/ R_RecvBody
    \/ R_RecvNone \/ R_RecvReset
    \/ R_RecvWait \/ R_RecvWake
    \/ \E s \in Socks, f \in Frames : Arrive(s, f)
    \/ \E s \in Socks, k \in Cuts : ArrivePart(s, pack(PktAB), k)
    \/ \E s \in Socks : ArriveRest(s)
    \/ \E s \in Socks : PeerClose(s)
    \/ \E s \in Socks : PeerReset(s)

SpecServe == Init /\ [][NextServe]_vars

(***************************************************************************)
(* What the claims speak of.                                               *)
(***************************************************************************)
\* The head of a frame, and the packet a frame carries.
frame_head(f) == UnpackBIH(SubSeq(f, 1, LEN_HEAD))

frame_body(f) == SubSeq(f, LEN_HEAD + 1, Len(f))

frame_packet(f) == Packet(f[1], frame_body(f))

\* A well-formed frame: a Flag, the length of its body, the CRC32 of its body.
WellFormed(f) ==
    /\ Len(f) >= LEN_HEAD
    /\ FlagContains(f[1])
    /\ frame_head(f)[3] = Len(frame_body(f))
    /\ frame_head(f)[2] = crc32(frame_body(f))

IsPrefix(a, b) == Len(a) <= Len(b) /\ a = SubSeq(b, 1, Len(a))

RECURSIVE stream(_)
\* The bytes of the frames of a sequence of packets, one after the other.
stream(pkts) ==
    IF pkts = << >> THEN << >> ELSE pack(Head(pkts)) \o stream(Tail(pkts))

\* C1: on every socket on which only well-formed frames arrived, the packets
\* put in recv_q are those of the frames, in order, each once; the socket
\* is not removed while its connection is up; and once every byte that
\* arrived has been read, every frame has been delivered.
C1_EveryValidFrameOnce ==
    \A s \in Socks :
        (\A i \in DOMAIN arrived[s] : WellFormed(arrived[s][i])) =>
            /\ IsPrefix(delivered[s],
                        [i \in DOMAIN arrived[s] |-> frame_packet(arrived[s][i])])
            /\ link[s] = "up" => s \notin closed
            /\ s \in DOMAIN receiver /\ inbuf[s] = << >>
                   => Len(delivered[s]) = Len(arrived[s])

\* C2: when one well-formed frame arrived on a registered socket, nothing is
\* delivered before its last byte is read, and once it is read exactly its
\* packet has been delivered and the Buffer is back at HEAD, remain 7,
\* no data.
C2_Reassembly ==
    \A s \in DOMAIN receiver :
        Len(arrived[s]) = 1 /\ WellFormed(arrived[s][1]) =>
            IF inbuf[s] = << >>
            THEN /\ delivered[s] = << frame_packet(arrived[s][1]) >>
                 /\ receiver[s].waiting = "HEAD"
                 /\ receiver[s].remain = LEN_HEAD
                 /\ receiver[s].data = << >>
            ELSE delivered[s] = << >>

\* The step reads the last bytes of the body socket s is waiting for.
BodyCompletes(s) ==
    /\ s \in DOMAIN receiver
    /\ receiver[s].waiting = "BODY"
    /\ receiver[s].remain \in 1..Len(inbuf[s])
    /\ inbuf'[s] = SubSeq(inbuf[s], receiver[s].remain + 1, Len(inbuf[s]))

\* The body that is complete after such a step.
BodyRead(s) == receiver[s].data \o SubSeq(inbuf[s], 1, receiver[s].remain)

C4_WorkersAreLoops ==
    threads # << >> =>
        /\ threads[1].target = "_send"
        /\ threads[2].target = "_recv"

\* C5: stop() called after start() returns: from the join it reaches the
\* state in which the selectors and the sockets are closed.
C5_StopTerminates ==
    (stop_pc = "join" /\ threads # << >>) ~> (stop_pc = "done")

\* C6: when the send of a dequeued packet fails because the connection was
\* reset or closed, the socket is removed and the packet is back at the head
\* of send_q.
C6_FailedSendRequeues ==
    [][(/\ w_pc = "send"
        /\ w_key \notin closed
        /\ link[w_key] \in {"rst", "pipe"}
        /\ w_pc' # "send")
       => (/\ w_key \notin socks'
           /\ send_q' = << w_packet >> \o send_q)]_vars

\* C7: no worker loop ends by an exception while is_working is true.
C7_LoopsNeverRaise ==
    is_working => r_pc # "raised" /\ w_pc # "raised"

\* C8: the bytes written on every socket are the whole frames of the packets
\* passed to send on it, one after the other.
C8_WholeFrames ==
    \A s \in Socks : wire[s] = stream(tried[s])

\* C9: |socks| <= size <= 128 in every state.
C9_SocksWithinSize ==
    Cardinality(socks) <= size /\ size <= max_size

\* C10: the two queues hold at most size x 5 packets between them, for the
\* sizes that bound a queue at all (size >= 1).
C10_QueuesBounded ==
    size >= 1 => Len(send_q) + Len(recv_q) <= size * 5

\* C11: once is_working is false, no call of send() adds a packet to send_q
\* and the reader puts no packet in recv_q and no RESEND in send_q.
C11_NoPacketAfterStop ==
    [][~ is_working =>
          /\ n_sends' = n_sends
          /\ delivered' = delivered
          /\ resends' = resends]_vars


\* C12: when removals have left the pool without a socket, the pool comes to
\* a terminated state: is_working is false, or both loops have ended.
C12_EmptyPoolAborts ==
    (closed # {} /\ socks = {} /\ is_working)
        ~> (\/ ~ is_working
            \/ r_pc \in {"exit", "raised"} /\ w_pc \in {"exit", "raised"})


\* C13: when the Sender takes from recv_q a RESEND that names a packet the
\* writer transmitted, it finds the packet and queues it again, and the
\* session does not fail.
C13_ResendRecovered ==
    [][\A s \in Socks : \A i \in DOMAIN tried[s] :
          (/\ recv_q # << >>
           /\ Head(recv_q) = load_RESEND(tried[s][i].flag,
                                         chksum(tried[s][i]),
                                         length(tried[s][i]))
           /\ recv_q' = Tail(recv_q))
          => (/\ send_q' = Append(send_q, tried[s][i])
              /\ ~ fatal')]_vars


\* The session is set up: one PULL or PUSH frame was written on the primary
\* socket and nothing else, the reply was read, and sid is the sid of the
\* reply.
SessionSetUp ==
    /\ c_pc \in {"hs_done", "cpc_done"}
    /\ \E a \in {PULL, PUSH} : wire["s1"] = pack(load_path(a, RemotePath))
    /\ arrived["s1"] # << >>
    /\ sid = << "int", 5 >>

\* C14: once run has made the Client, the session is set up, first the
\* request and the reply on the primary socket, unless the primary
\* connection fails.
C14_SetUpInOrder ==
    (c_pc = "init_conn") ~> (SessionSetUp \/ link["s1"] # "up")


\* C15: the writer passes a packet to send on an auxiliary socket (any but
\* s1) only after the server has begun to send frames on that socket.
C15_NoWriteBeforeAck ==
    [][\A s \in Socks \ {"s1"} :
          tried'[s] # tried[s] => arrived[s] # << >>]_vars


\* C16: the handshake ends without failure only when the reply it read on
\* the primary socket is a whole SID frame the server sent.
C16_BadReplyAborts ==
    c_pc \in {"hs_done", "cpc_done"} /\ wire["s1"] # << >> =>
        /\ c_ret.flag = FlagOf("SID")
        /\ \E i \in DOMAIN arrived["s1"] : arrived["s1"][i] = pack(c_ret)


\* recv_msg reads the last bytes of the body it waits for, and the CRC32 of
\* the body is not the checksum of the head.
MismatchRead ==
    /\ c_pc = "recv_body"
    /\ link["s1"] # "rst"
    /\ Len(inbuf["s1"]) >= c_head[3]
    /\ crc32(recv_data(c_head[3])) # c_head[2]
    /\ inbuf'["s1"] = recv_rest(c_head[3])

\* C17: on such a read recv_msg writes one RESEND frame whose body is the
\* (flag, chksum, length) of the head, raises nothing and reads the next
\* head; and a packet it returns has the CRC32 its head names.
C17_MismatchResends ==
    [][/\ MismatchRead =>
            /\ wire'["s1"] = wire["s1"] \o
                   pack(load_RESEND(c_head[1], c_head[2], c_head[3]))
            /\ c_pc' = "recv_head"
       /\ c_pc' = "returned" => crc32(c_ret'.body) = c_head'[2]]_vars


\* C18: the frame of a packet is its 7-byte head followed by its body;
\* unpack_head of the first 7 bytes gives (flag, CRC32(body), length of
\* body); the packet made of that flag and the next length bytes is the
\* packet that was packed, and it passes is_valid.
C18_FrameRoundTrip ==
    /\ k_out.step # "none" =>
          /\ Len(k_out.frame) = LEN_HEAD + Len(k_pkt.body)
          /\ slice(k_out.frame, LEN_HEAD, Len(k_out.frame)) = k_pkt.body
    /\ k_out.step = "unpacked" =>
          /\ k_out.head = << k_pkt.flag, crc32(k_pkt.body), Len(k_pkt.body) >>
          /\ k_out.pkt = k_pkt
          /\ k_out.valid

\* C18, the case: a packet whose length takes both bytes of the length
\* field was packed and its frame decoded.
C18_Witness ==
    /\ k_out.step = "unpacked"
    /\ k_pkt = Packet(RESEND, BodyOf(300))
    /\ k_out.pkt = k_pkt


\* What a Buffer is in every state: remain >= 0; while waiting for HEAD,
\* data and remain make up the 7 bytes of a head and flag and chksum are
\* unset.
BufferShape(b) ==
    /\ b.waiting \in {"HEAD", "BODY"}
    /\ b.remain >= 0
    /\ b.waiting = "HEAD" =>
          /\ Len(b.data) + b.remain = LEN_HEAD
          /\ b.flag = NoFlag
          /\ b.chksum = ZeroSum

\* What a step does to the Buffer b of a socket, c being the Buffer after
\* the step and got the bytes read: within a phase data grows by got and
\* remain shrinks by as much; HEAD ends in BODY with data empty and flag,
\* chksum and remain those of the head read; BODY ends in a new HEAD.
BufferMove(b, c, got) ==
    IF b.waiting = c.waiting /\ ~ (b.waiting = "BODY" /\ c = NewBuffer)
    THEN /\ c.data = b.data \o got
         /\ c.remain = b.remain - Len(got)
         /\ c.flag = b.flag
         /\ c.chksum = b.chksum
    ELSE IF b.waiting = "HEAD"
    THEN /\ Len(got) = b.remain
         /\ c.data = << >>
         /\ << c.flag, c.chksum, c.remain >> = UnpackBIH(b.data \o got)
    ELSE /\ Len(got) = b.remain
         /\ c = NewBuffer

\* C19: every Buffer starts as HEAD with remain 7 and no data, keeps the
\* shape above in every state, and moves only along HEAD -> BODY -> HEAD,
\* so that while waiting for BODY data and remain make up the length of the
\* head and flag and chksum are those of the head.
C19_BufferCycle ==
    /\ [](\A s \in DOMAIN receiver : BufferShape(receiver[s]))
    /\ [][\A s \in DOMAIN receiver' :
             IF s \in DOMAIN receiver
             THEN receiver'[s] # receiver[s] =>
                     BufferMove(receiver[s], receiver'[s],
                                SubSeq(inbuf[s], 1,
                                       Len(inbuf[s]) - Len(inbuf'[s])))
             ELSE receiver'[s] = NewBuffer]_vars

\* C19, the case: after one packet was delivered from a socket, its Buffer
\* waits for the second byte of the body of the next frame.
C19_Witness ==
    \E s \in DOMAIN receiver :
        /\ delivered[s] # << >>
        /\ receiver[s].waiting = "BODY"
        /\ receiver[s].remain = 1
        /\ receiver[s].data = << 97 >>
        /\ receiver[s].flag = PULL


\* socks and the two readiness registrations name the same sockets.
PoolConsistent ==
    /\ sender = socks
    /\ DOMAIN receiver = socks

\* C20: when the writer and the reader meet the failure of the same socket,
\* the socket is removed once: socks and the two registrations stay
\* consistent, and the loop that comes second, finding the socket already
\* removed by the other, goes on instead of ending.
C20_RemovedOnce ==
    /\ [](PoolConsistent)
    /\ [][/\ (w_pc = "send" /\ w_key \in closed /\ link[w_key] = "rst")
                => w_pc' # "raised"
          /\ (r_pc = "for" /\ \E s \in r_keys \cap closed : link[s] = "rst")
                => r_pc' # "raised"]_vars


\* Socket a holds fewer bytes than its Buffer still asks for, of a frame
\* whose rest has not arrived.
PartlyArrived(a) ==
    /\ a \in DOMAIN receiver
    /\ link[a] = "up"
    /\ cut[a] # << >>
    /\ Len(inbuf[a]) < receiver[a].remain

\* One complete valid frame has arrived on socket b and its packet has not
\* been delivered yet.
FrameWaits(b) ==
    /\ b \in DOMAIN receiver
    /\ link[b] = "up"
    /\ cut[b] = << >>
    /\ arrived[b] = << pack(PktAB) >>
    /\ delivered[b] = << >>

\* C21: while a running reader has a socket a with a partly arrived frame
\* and another socket b with a complete valid frame not yet delivered, the
\* reader can take a step without a receiving anything more: the frame on
\* a does not stop it from serving b.
C21_OthersStillServed ==
    \A a, b \in Socks :
        (/\ a # b
         /\ is_working
         /\ r_pc \in {"while", "for", "recv"}
         /\ PartlyArrived(a)
         /\ FrameWaits(b))
        => ENABLED ReaderStep


\* C22: when the reader's recv on a registered socket s returns no byte
\* because the peer has closed, wherever in a frame the Buffer of s stands,
\* the step takes s out of socks and of both registrations and closes it,
\* and leaves the queues, what was delivered and the Buffers of the other
\* sockets as they were; and a frame whose bytes did not all arrive is
\* never delivered.
C22_PeerCloseRemoves ==
    /\ [](\A s \in Socks :
             cut[s] # << >> => Len(delivered[s]) < Len(arrived[s]))
    /\ [][\A s \in Socks :
             (/\ r_pc = "for"
              /\ s \in r_next \ closed
              /\ link[s] = "fin"
              /\ inbuf[s] = << >>
              /\ r_keys' = r_keys \ {s})
             => (/\ s \notin socks'
                 /\ s \notin sender'
                 /\ s \notin DOMAIN receiver'
                 /\ s \in closed'
                 /\ recv_q' = recv_q
                 /\ send_q' = send_q
                 /\ delivered' = delivered
                 /\ resends' = resends
                 /\ \A t \in DOMAIN receiver \ {s} :
                       /\ t \in DOMAIN receiver'
                       /\ receiver'[t] = receiver[t])]_vars

\* C22, the case: the peer of s2 closed after 8 of the 9 bytes of a frame,
\* the reader has read them and removed s2, nothing was delivered, and s1
\* is still registered with part of a head in its Buffer.
C22_Witness ==
    /\ link["s2"] = "fin"
    /\ cut["s2"] = << 98 >>
    /\ inbuf["s2"] = << >>
    /\ "s2" \in closed
    /\ "s2" \notin socks
    /\ delivered["s2"] = << >>
    /\ recv_q = << >>
    /\ "s1" \in DOMAIN receiver
    /\ receiver["s1"].waiting = "HEAD"
    /\ receiver["s1"].data # << >>
    /\ r_pc \in {"while", "for"}

=============================================================================
